---- MODULE Spec2Model ----
(***************************************************************************)
(* A model of pynwputils' option validation facade,                        *)
(* utils/schema_interface.py: build_schema, validate_opts,                 *)
(* validate_schema and validate_keys, together with the parts of the       *)
(* `schema` validation library and of tools/parser_interface they call.    *)
(*                                                                         *)
(* Python values are modelled by tokens (PyValues); a mapping is a TLA+    *)
(* function whose domain is the set of its keys.  A schema dictionary maps *)
(* a field name to a record: optional (the key is an Optional instance),   *)
(* default (Optional.default) and svalue (the dictionary's value: a type,  *)
(* Or(type, None), or the object None left by a failed locate).            *)
(***************************************************************************)
EXTENDS Naturals, Sequences, FiniteSets, TLC

VARIABLES
    cls_schema,   \* the schema dictionary the caller holds (build_schema's result)
    cls_opts,     \* the caller's own options mapping object (mutated in place)
    op,           \* the operation that ran last
    args,         \* the arguments of that call, as they were on entry
    ret,          \* its outcome: [status, value]; status "ok" or the exception raised
    emitted,      \* the messages that call passed to the methods of the Logger
    logging,      \* the logging module: the level and the handlers of its root logger
    stream,       \* what has been written to sys.stdout, line by line
    fs,           \* the filesystem: what is at each path
    fs_entry,     \* the filesystem as it was on entry to the last call
    web           \* the web: what answers at each URL

vars ==
    <<cls_schema, cls_opts, op, args, ret, emitted, logging, stream, fs,
      fs_entry, web>>

\* the state of the schema interface, of the logger interface and of the
\* file interface
schemavars == <<cls_schema, cls_opts>>
loggervars == <<logging, stream>>
filevars == <<fs, fs_entry>>

-----------------------------------------------------------------------------
(* Bounds of the model. *)

\* the largest number of keys in an options mapping passed by the caller
MaxOptKeys == 2
\* the largest length of the key lists passed to validate_keys
MaxKeys == 2
\* the largest length of the list of accepted values passed to check_opts
MaxValidOpts == 2
\* the largest number of lines written to the stream of the loggers
MaxLines == 2
\* the largest length of the list of files passed to concatenate
MaxFiles == 2

-----------------------------------------------------------------------------
(* Python values and types. *)

\* the key is missing from a YAML field spec
Absent == "<absent>"
\* Python's None
None == "None"

\* True, the integers 5 and 7, the string 'a', and None
PyValues == {"True", "5", "7", "'a'", None}

\* the values the caller puts into an options mapping
OptionValues == {"True", "7", "'a'", None}

\* strings of more than one character: two words, and one word
LongStrings == {"'ab cd'", "'abcd'"}

\* the strings: those above, and the values of str() and of an f-string
StrValues ==
    {"'a'", "'b'"} \cup LongStrings \cup {"'True'", "'False'", "'None'", "'5'", "'7'"}

\* type(value).__name__
TypeOf(v) ==
    CASE v = "True" -> "bool"
      [] v \in {"5", "7"} -> "int"
      [] v \in StrValues -> "str"
      [] OTHER -> "NoneType"

\* str(value)
PyStr(v) ==
    CASE v = "True" -> "'True'"
      [] v = "5" -> "'5'"
      [] v = "7" -> "'7'"
      [] v = None -> "'None'"
      [] OTHER -> v

\* the characters of a string
Text(v) ==
    CASE v = "'a'" -> <<"a">>
      [] v = "'b'" -> <<"b">>
      [] v = "'ab cd'" -> <<"a", "b", " ", "c", "d">>
      [] v = "'abcd'" -> <<"a", "b", "c", "d">>
      [] v = "'True'" -> <<"T", "r", "u", "e">>
      [] v = "'False'" -> <<"F", "a", "l", "s", "e">>
      [] v = "'None'" -> <<"N", "o", "n", "e">>
      [] v = "'5'" -> <<"5">>
      [] v = "'7'" -> <<"7">>

\* the type names pydoc.locate resolves to a builtin type
KnownTypes == {"bool", "int", "str"}

\* isinstance(v, t) for a builtin type t: bool is a subclass of int
PyIsInstance(v, t) ==
    \/ t = "object"
    \/ TypeOf(v) = t
    \/ (TypeOf(v) = "bool" /\ t = "int")

\* the names a schema field can have
FieldNames == {"x", "y"}
\* the order in which a dictionary built over FieldNames is iterated
FieldOrder == <<"x", "y">>
\* the keys an options mapping can have: the field names and one more
OptionKeys == FieldNames \cup {"e"}

\* the empty dictionary
EmptyDict == [k \in {} |-> None]

\* the dictionaries over any of a set of keys
Dicts(keys, vals) == UNION {[ks -> vals] : ks \in SUBSET keys}

\* the dictionaries over a set of keys with at most n entries
DictsUpTo(keys, vals, n) ==
    UNION {[ks -> vals] : ks \in {s \in SUBSET keys : Cardinality(s) <= n}}

-----------------------------------------------------------------------------
(* build_schema. *)

\* the type names a field spec can give: three builtin types and a name
\* that resolves to nothing
TypeNames == KnownTypes \cup {"nosuch"}

\* the field specs of a schema definition: each key may be missing
FieldSpecs ==
    [type : TypeNames \cup {Absent},
     required : {Absent, "True", "False"},
     default : {Absent, None, "True", "5", "'a'"}]

\* the schema definition dictionaries: a field spec for any of the names
SchemaDefs == Dicts(FieldNames, FieldSpecs)

\* parser_interface.dict_key_value(dict_in, key, force=True, no_split=True):
\* the value of the key, None when the key is missing
dict_key_value(dict_in, key) ==
    IF dict_in[key] = Absent THEN None ELSE dict_in[key]

\* pydoc.locate(path) raises AttributeError on None (None has no split)
LocateRaises(path) == path = None

\* pydoc.locate(path) for a string: the builtin type, or None when the name
\* resolves to nothing
locate(path) == IF path \in KnownTypes THEN path ELSE None

\* the values of a schema dictionary
SType(t) == [kind |-> "type", of |-> t]
SOr(t) == [kind |-> "Or", of |-> t]
SNone == [kind |-> "None", of |-> None]

\* what a required field maps to: locate(dtype), a type or the object None
RequiredValue(dtype) ==
    IF locate(dtype) = None THEN SNone ELSE SType(locate(dtype))

\* the outcome of one pass of build_schema's loop that adds an entry
Added(entry) == [exc |-> "", keep |-> TRUE, entry |-> entry]

\* the outcome of one pass that adds nothing
NotAdded ==
    [exc |-> "", keep |-> FALSE,
     entry |-> [optional |-> FALSE, default |-> None, svalue |-> SNone]]

\* the outcome of one pass that raises exc
PassRaises(exc) ==
    [exc |-> exc, keep |-> FALSE,
     entry |-> [optional |-> FALSE, default |-> None, svalue |-> SNone]]

\* a plausible slip: the type of a null default is not widened
OptionalNotWidened(default, dtype) ==
    Added([optional |-> TRUE, default |-> default, svalue |-> SType(dtype)])

\* the branch isinstance(default, type(None)): Optional(key, default) with
\* the value Or(type, None)
OptionalOrNone(default, dtype) ==
    Added([optional |-> TRUE, default |-> default, svalue |-> SOr(dtype)])

\* a plausible slip: the mismatched default is kept as the field's default
MismatchKept(default, dtype) ==
    Added([optional |-> TRUE, default |-> default, svalue |-> SType(dtype)])

\* a plausible slip: the mismatched default raises
MismatchRaises(default, dtype) == PassRaises("SchemaInterfaceError")

\* the branch else: pass, for a default that is neither an instance of the
\* type nor None
DefaultMismatch(default, dtype) == NotAdded

\* One pass of build_schema's loop over a field spec: exc is the exception
\* raised ("" when none), keep whether an entry is added, entry the entry.
BuildField(schema_dict) ==
    LET dtype == dict_key_value(schema_dict, "type")
        default == dict_key_value(schema_dict, "default")
        required0 == dict_key_value(schema_dict, "required")
        required == IF required0 = None THEN "False" ELSE required0
    IN  IF LocateRaises(dtype)
        THEN PassRaises("AttributeError")
        ELSE IF required = "True"
        THEN Added([optional |-> FALSE, default |-> None,
                    svalue |-> RequiredValue(dtype)])
        ELSE IF locate(dtype) = None
        THEN \* isinstance(default, None): arg 2 must be a type
             PassRaises("TypeError")
        ELSE IF PyIsInstance(default, locate(dtype))
        THEN Added([optional |-> TRUE, default |-> default,
                    svalue |-> SType(locate(dtype))])
        ELSE IF default = None
        THEN OptionalOrNone(default, locate(dtype))
        ELSE DefaultMismatch(default, locate(dtype))

RECURSIVE BuildFrom(_, _, _)
\* build_schema's loop from the i-th field on, schema_attr_dict so far acc
BuildFrom(schema_def_dict, i, acc) ==
    IF i > Len(FieldOrder) THEN [status |-> "ok", value |-> acc]
    ELSE LET key == FieldOrder[i] IN
         IF key \notin DOMAIN schema_def_dict
         THEN BuildFrom(schema_def_dict, i + 1, acc)
         ELSE LET r == BuildField(schema_def_dict[key]) IN
              IF r.exc # "" THEN [status |-> r.exc, value |-> None]
              ELSE IF r.keep
              THEN BuildFrom(schema_def_dict, i + 1, acc @@ (key :> r.entry))
              ELSE BuildFrom(schema_def_dict, i + 1, acc)

\* build_schema(schema_def_dict): the schema dictionary, or the exception
build_schema(schema_def_dict) == BuildFrom(schema_def_dict, 1, EmptyDict)

-----------------------------------------------------------------------------
(* The schema library: Schema([schema_dict], ignore_extra_keys).validate. *)

\* a plausible slip: ignore_extra_keys is not handed to Schema, whose own
\* default is False
def_schema_FlagDropped(schema_dict, ignore_extra_keys) ==
    [schema_dict |-> schema_dict, ignore_extra_keys |-> FALSE]

\* __def_schema__(schema_dict, ignore_extra_keys): the Schema object
def_schema(schema_dict, ignore_extra_keys) ==
    [schema_dict |-> schema_dict, ignore_extra_keys |-> ignore_extra_keys]

\* Schema(svalue).validate(value) does not raise.  A type accepts its
\* instances, but int does not accept a bool; Or(type, None) accepts what the
\* type accepts and None; And(type, callable) accepts an instance of the type
\* for which the callable is true; the object None accepts only None.
Accepts(svalue, value) ==
    CASE svalue.kind = "type" ->
            PyIsInstance(value, svalue.of)
            /\ ~(PyIsInstance(value, "bool") /\ svalue.of = "int")
      [] svalue.kind = "Or" ->
            \/ (PyIsInstance(value, svalue.of)
                /\ ~(PyIsInstance(value, "bool") /\ svalue.of = "int"))
            \/ value = None
      [] svalue.kind = "And" ->
            \* And(type, lambda opt: opt in valid_opts)
            /\ PyIsInstance(value, svalue.of)
            /\ value \in svalue.valid_opts
      [] OTHER -> value = None

\* the keys of a schema dictionary that are not Optional instances
RequiredKeys(schema_dict) ==
    {k \in DOMAIN schema_dict : ~schema_dict[k].optional}

\* the keys of a schema dictionary that are Optional instances
OptionalKeys(schema_dict) ==
    {k \in DOMAIN schema_dict : schema_dict[k].optional}

\* schema.validate([data]): "ok", or the name of the SchemaError raised.
\* A value its key's schema rejects is reported while the data are walked,
\* then a missing required key, then (unless extra keys are ignored) a key
\* the schema does not declare.
SchemaValidate(schema, data) ==
    LET s == schema.schema_dict IN
    IF \E k \in DOMAIN data \cap DOMAIN s : ~Accepts(s[k].svalue, data[k])
    THEN "SchemaError"
    ELSE IF ~(RequiredKeys(s) \subseteq DOMAIN data)
    THEN "SchemaMissingKeyError"
    ELSE IF ~schema.ignore_extra_keys /\ ~(DOMAIN data \subseteq DOMAIN s)
    THEN "SchemaWrongKeyError"
    ELSE "ok"

-----------------------------------------------------------------------------
(* textwrap.wrap(text, width) of the standard library, for a text of words
   and spaces: a list of lines of at most width characters. *)

\* chunk.strip() == ""
IsSpace(chunk) == \A i \in 1..Len(chunk) : chunk[i] = " "

RECURSIVE SplitChunks(_, _)
\* TextWrapper._split: the maximal runs of spaces and of other characters
SplitChunks(chunks, text) ==
    IF text = <<>> THEN chunks
    ELSE LET c == Head(text)
             n == Len(chunks)
         IN  IF n > 0 /\ ((chunks[n][1] = " ") <=> (c = " "))
             THEN SplitChunks([chunks EXCEPT ![n] = Append(@, c)], Tail(text))
             ELSE SplitChunks(Append(chunks, <<c>>), Tail(text))

RECURSIVE JoinChunks(_)
\* "".join(cur_line)
JoinChunks(cur_line) ==
    IF cur_line = <<>> THEN <<>>
    ELSE Head(cur_line) \o JoinChunks(Tail(cur_line))

RECURSIVE FillLine(_, _, _)
\* the inner loop of TextWrapper._wrap_chunks: chunks move to the current
\* line while they fit
FillLine(cur_line, chunks, width) ==
    IF chunks # <<>> /\ Len(JoinChunks(cur_line)) + Len(Head(chunks)) <= width
    THEN FillLine(Append(cur_line, Head(chunks)), Tail(chunks), width)
    ELSE [cur_line |-> cur_line, chunks |-> chunks]

\* TextWrapper._handle_long_word: a chunk longer than width is broken at the
\* space left on the line
HandleLongWord(f, width) ==
    IF f.chunks # <<>> /\ Len(Head(f.chunks)) > width
    THEN [cur_line |->
             Append(f.cur_line,
                    SubSeq(Head(f.chunks), 1, width - Len(JoinChunks(f.cur_line)))),
          chunks |->
             <<SubSeq(Head(f.chunks), width - Len(JoinChunks(f.cur_line)) + 1,
                      Len(Head(f.chunks)))>>
             \o Tail(f.chunks)]
    ELSE f

\* a space at the end of the line is dropped
DropLastSpace(cur_line) ==
    IF cur_line # <<>> /\ IsSpace(cur_line[Len(cur_line)])
    THEN SubSeq(cur_line, 1, Len(cur_line) - 1) ELSE cur_line

\* a space at the start of a line after the first is dropped
DropFirstSpace(lines, chunks) ==
    IF IsSpace(Head(chunks)) /\ lines # <<>> THEN Tail(chunks) ELSE chunks

\* one line: the chunks that fit, and a part of a chunk longer than width
OneLine(lines, chunks, width) ==
    HandleLongWord(FillLine(<<>>, DropFirstSpace(lines, chunks), width), width)

\* lines.append("".join(cur_line)) for a line that is not empty
AppendLine(lines, cur_line) ==
    IF cur_line # <<>> THEN Append(lines, JoinChunks(cur_line)) ELSE lines

RECURSIVE WrapChunks(_, _, _)
\* TextWrapper._wrap_chunks: line after line until no chunk is left
WrapChunks(lines, chunks, width) ==
    IF chunks = <<>> THEN lines
    ELSE WrapChunks(AppendLine(lines, DropLastSpace(OneLine(lines, chunks, width).cur_line)),
                    OneLine(lines, chunks, width).chunks, width)

\* textwrap.wrap(text, width=width)
textwrap_wrap(text, width) == WrapChunks(<<>>, SplitChunks(<<>>, text), width)

-----------------------------------------------------------------------------
(* validate_schema, validate_opts, validate_keys. *)

\* the names logger_method can take
LoggerMethodNames == {"info", "WARN", "trace"}

\* the default of validate_schema's width
WidthDefault == 50

\* str.lower() on those names
Lower(name) ==
    CASE name = "WARN" -> "warn"
      [] OTHER -> name

\* the methods of the Logger
LoggerMethods ==
    {"critical", "debug", "error", "info", "status", "warn",
     "write", "reset", "level", "format"}

\* the attributes of the Logger object that getattr finds: its methods and
\* the data attributes set by __init__
LoggerAttrs ==
    LoggerMethods \cup
    {"log_format", "date_format", "stream", "caller_name", "colors_dict"}

\* the Logger methods that accept the call logmethod(msg=msg)
LoggerMessageMethods ==
    {"critical", "debug", "error", "info", "status", "warn"}

\* parser_interface.object_getattr(object_in=logger, key, force=True):
\* the attribute, None when the logger has none of that name
object_getattr(key) == IF key \in LoggerAttrs THEN key ELSE None

\* parser_interface.dict_formatter(in_dict): a new dictionary in which
\* nested containers are normalised; an entry that is no container is kept
dict_formatter(in_dict) == [k \in DOMAIN in_dict |-> in_dict[k]]

\* the outcome of an operation that returned value
Returned(value) == [status |-> "ok", cause |-> "", value |-> value]

\* the outcome of an operation that raised an exception other than
\* SchemaInterfaceError
Raised(exc) == [status |-> exc, cause |-> "", value |-> None]

\* a plausible slip: the exception is not wrapped
Reraised(cause) == [status |-> cause, cause |-> cause, value |-> None]

\* the except clause: any exception is raised again as SchemaInterfaceError
SchemaInterfaceError(cause) ==
    [status |-> "SchemaInterfaceError", cause |-> cause, value |-> None]

\* a plausible slip: the default is assigned whether or not the key is there
FillDefaultsOverwrite(schema_dict, opts) ==
    [k \in DOMAIN opts \cup OptionalKeys(schema_dict) |->
        IF k \in OptionalKeys(schema_dict)
        THEN schema_dict[k].default ELSE opts[k]]

\* The loop of validate_schema over the schema's Optional keys: a key the
\* options lack is set to its default in the caller's dictionary.
FillDefaults(schema_dict, opts) ==
    [k \in DOMAIN opts \cup OptionalKeys(schema_dict) |->
        IF k \in DOMAIN opts THEN opts[k] ELSE schema_dict[k].default]

\* one call logger.<channel>(msg=msg): kind tells the messages apart, key
\* is the option a default is reported for, table the rows of a table
LogRecord(channel, kind, key, table) ==
    [channel |-> channel, kind |-> kind, key |-> key, table |-> table]

\* the fields of the schema in the order the dictionary is iterated
KeysInOrder(schema_dict) ==
    SelectSeq(FieldOrder, LAMBDA k : k \in DOMAIN schema_dict)

\* isinstance(value, (bool, float, int, str))
IsScalar(value) == TypeOf(value) \in {"bool", "int", "str"}

\* __get_dtype__: the name of the type of a schema value
get_dtype(svalue) == svalue.of

\* __get_tblrow__: the rows the call appends to the table, or the exception
\* it raises.  dtype is always a string, so the rows are built by the first
\* branch: str_list is computed and the row carries value itself; the loop
\* over str_list[1::] stands under "dtype is None" and never runs.
\* textwrap.wrap(value) raises AttributeError for a value that is None.
get_tblrow(dtype, cls_str, default, value, optional, width) ==
    LET isbool == dtype = "bool"
        wraps == ~isbool /\ dtype = "str" /\ default # None
        str_list == textwrap_wrap(Text(value), width)
        defstr_list == textwrap_wrap(Text(default), width)
        value1 == IF isbool THEN PyStr(value) ELSE value
        default1 == IF ~optional THEN None
                    ELSE IF isbool THEN PyStr(default) ELSE default
        row == [variable |-> cls_str, type |-> dtype,
                optional |-> IF optional THEN "'True'" ELSE "'False'",
                default |-> default1, assigned |-> value1]
    IN  IF wraps /\ TypeOf(value) # "str"
        THEN [status |-> "AttributeError", table |-> <<>>]
        ELSE [status |-> "ok",
              table |-> IF IsScalar(value1) \/ IsScalar(default1)
                        THEN <<row>> ELSE <<>>]

RECURSIVE TableFrom(_, _, _, _, _)
\* the loop of __buildtbl__ over the keys of the schema, from the i-th on
TableFrom(schema_dict, opts, width, i, table) ==
    LET keys == KeysInOrder(schema_dict) IN
    IF i > Len(keys) THEN [status |-> "ok", table |-> table]
    ELSE LET k == keys[i]
             entry == schema_dict[k]
             r == get_tblrow(get_dtype(entry.svalue), k,
                             IF entry.optional THEN entry.default ELSE None,
                             opts[k], entry.optional, width)
         IN  IF entry.svalue.kind = "None"
             THEN [status |-> "AttributeError", table |-> <<>>]
             ELSE IF r.status # "ok" THEN r
             ELSE TableFrom(schema_dict, opts, width, i + 1, table \o r.table)

\* table_interface.compose(table_obj): the header and the rows, rendered
compose(table) ==
    [header |-> <<"Variable", "Type", "Optional", "Default Value", "Assigned Value">>,
     rows |-> table]

\* a plausible slip: a logger method that does not exist is passed over
buildtbl_Unchecked(schema_dict, opts, logger_method, width) ==
    LET t == TableFrom(schema_dict, opts, width, 1, <<>>)
        logmethod == object_getattr(Lower(logger_method))
    IN  IF t.status # "ok" THEN [status |-> t.status, log |-> <<>>]
        ELSE IF logmethod = None THEN [status |-> "ok", log |-> <<>>]
        ELSE IF logmethod \notin LoggerMessageMethods
        THEN [status |-> "TypeError", log |-> <<>>]
        ELSE [status |-> "ok",
              log |-> <<LogRecord(logmethod, "table", None, compose(t.table).rows)>>]

\* __buildtbl__: status is "ok" or the exception raised, log the message
\* passed to the logger.  __get_dtype__ reads __name__ of the schema value,
\* which the object None does not have; the logger method is looked up after
\* the table is composed, and an attribute that is no method taking msg
\* fails in the call.
buildtbl(schema_dict, opts, logger_method, width) ==
    LET t == TableFrom(schema_dict, opts, width, 1, <<>>)
        logmethod == object_getattr(Lower(logger_method))
    IN  IF t.status # "ok" THEN [status |-> t.status, log |-> <<>>]
        ELSE IF logmethod = None
        THEN [status |-> "SchemaInterfaceError", log |-> <<>>]
        ELSE IF logmethod \notin LoggerMessageMethods
        THEN [status |-> "TypeError", log |-> <<>>]
        ELSE [status |-> "ok",
              log |-> <<LogRecord(logmethod, "table", None, compose(t.table).rows)>>]

\* the try block of validate_schema: validation, then the table; out is the
\* outcome, log the messages passed to the logger
TryValidate(schema, schema_dict, opts, write_table, logger_method, width) ==
    LET v == SchemaValidate(schema, opts)
        t == buildtbl(schema_dict, opts, logger_method, width)
    IN  IF v # "ok" THEN [out |-> SchemaInterfaceError(v), log |-> <<>>]
        ELSE IF ~write_table THEN [out |-> Returned(opts), log |-> <<>>]
        ELSE IF t.status # "ok"
        THEN [out |-> SchemaInterfaceError(t.status), log |-> t.log]
        ELSE [out |-> Returned(opts), log |-> t.log]

RECURSIVE DefaultWarnings(_, _, _)
\* logger.warn(msg) for each Optional key the options lack, in the order of
\* the schema, from the i-th key on
DefaultWarnings(schema_dict, opts, i) ==
    LET keys == KeysInOrder(schema_dict) IN
    IF i > Len(keys) THEN <<>>
    ELSE (IF schema_dict[keys[i]].optional /\ keys[i] \notin DOMAIN opts
          THEN <<LogRecord("warn", "default", keys[i], <<>>)>> ELSE <<>>)
         \o DefaultWarnings(schema_dict, opts, i + 1)

\* logger.info("Schema successfully validated.") when nothing was raised
ValidatedInfo(out) ==
    IF out.status = "ok" THEN <<LogRecord("info", "validated", None, <<>>)>>
    ELSE <<>>

\* a plausible slip: the options are validated before the defaults are set
validate_schema_ValidatedFirst(schema_dict, opts, ignore_extra_keys, write_table, logger_method, width) ==
    LET schema == def_schema(schema_dict, ignore_extra_keys)
        filled == FillDefaults(schema_dict, opts)
        local == dict_formatter(filled)
        v == SchemaValidate(schema, opts)
        t == buildtbl(schema_dict, local, logger_method, width)
        out == IF v # "ok" THEN SchemaInterfaceError(v)
               ELSE IF write_table /\ t.status # "ok"
               THEN SchemaInterfaceError(t.status)
               ELSE Returned(local)
    IN  [out |-> out, opts |-> filled,
         log |-> DefaultWarnings(schema_dict, opts, 1)
                 \o (IF v = "ok" /\ write_table THEN t.log ELSE <<>>)
                 \o ValidatedInfo(out)]

\* a plausible slip: the defaults are taken out again when the call fails
validate_schema_RolledBack(schema_dict, opts, ignore_extra_keys, write_table, logger_method, width) ==
    LET schema == def_schema(schema_dict, ignore_extra_keys)
        filled == FillDefaults(schema_dict, opts)
        local == dict_formatter(filled)
        t == TryValidate(schema, schema_dict, local, write_table, logger_method, width)
    IN  [out |-> t.out, opts |-> IF t.out.status = "ok" THEN filled ELSE opts,
         log |-> DefaultWarnings(schema_dict, opts, 1) \o t.log \o ValidatedInfo(t.out)]

\* validate_schema: out is the outcome, opts the caller's dictionary after
\* the call, log the messages passed to the logger
validate_schema(schema_dict, opts, ignore_extra_keys, write_table, logger_method, width) ==
    LET schema == def_schema(schema_dict, ignore_extra_keys)
        filled == FillDefaults(schema_dict, opts)
        local == dict_formatter(filled)
        t == TryValidate(schema, schema_dict, local, write_table, logger_method, width)
    IN  [out |-> t.out, opts |-> filled,
         log |-> DefaultWarnings(schema_dict, opts, 1) \o t.log \o ValidatedInfo(t.out)]

\* a plausible slip: validate_opts sets the defaults as validate_schema does
validate_opts_Fills(schema_dict, opts, ignore_extra_keys) ==
    LET schema == def_schema(schema_dict, ignore_extra_keys)
        v == SchemaValidate(schema, opts)
    IN  [out |-> IF v # "ok" THEN SchemaInterfaceError(v) ELSE Returned(None),
         opts |-> FillDefaults(schema_dict, opts)]

\* validate_opts: out is the outcome, opts the caller's dictionary after
\* the call
validate_opts(schema_dict, opts, ignore_extra_keys) ==
    LET schema == def_schema(schema_dict, ignore_extra_keys)
        v == SchemaValidate(schema, opts)
    IN  [out |-> IF v # "ok" THEN SchemaInterfaceError(v) ELSE Returned(None),
         opts |-> opts]

\* the elements of a list
Elems(list) == {list[i] : i \in 1..Len(list)}

\* a plausible slip: any() in place of all()
validate_keys_Any(varkeys, mandkeys) ==
    \E i \in 1..Len(mandkeys) : mandkeys[i] \in Elems(varkeys)

\* validate_keys(varkeys, mandkeys): all(key in varkeys for key in mandkeys)
validate_keys(varkeys, mandkeys) ==
    \A i \in 1..Len(mandkeys) : mandkeys[i] \in Elems(varkeys)

-----------------------------------------------------------------------------
(* check_opts. *)

\* a plausible slip: the schema is the membership test alone, without str
andopts_NoStr(key, valid_opts) ==
    key :> [optional |-> FALSE, default |-> None,
            svalue |-> [kind |-> "And", of |-> "object",
                        valid_opts |-> Elems(valid_opts)]]

\* __andopts__(key, valid_opts): {key: And(str, lambda opt: opt in valid_opts)}
andopts(key, valid_opts) ==
    key :> [optional |-> FALSE, default |-> None,
            svalue |-> [kind |-> "And", of |-> "str",
                        valid_opts |-> Elems(valid_opts)]]

\* check_opts(key, valid_opts, data, check_and).  schema_dict is bound only
\* under check_and; Schema([schema_dict]) reads it outside the try block, and
\* is built with the library's own ignore_extra_keys, False.
check_opts(key, valid_opts, data, check_and) ==
    IF ~check_and THEN Raised("UnboundLocalError")
    ELSE LET schema == [schema_dict |-> andopts(key, valid_opts),
                        ignore_extra_keys |-> FALSE]
             v == SchemaValidate(schema, data)
         IN  IF v # "ok" THEN SchemaInterfaceError(v) ELSE Returned(None)

-----------------------------------------------------------------------------
(* The Logger, and the part of the logging module it uses. *)

\* the level names passed to the Logger
LevelNames ==
    {"critical", "debug", "error", "info", "warning",
     "INFO", "Info", "status", "STATUS", "reset", "warn", "trace"}

\* loglev.upper()
Upper(name) ==
    CASE name = "critical" -> "CRITICAL"
      [] name = "debug" -> "DEBUG"
      [] name = "error" -> "ERROR"
      [] name \in {"info", "Info", "INFO"} -> "INFO"
      [] name = "warning" -> "WARNING"
      [] name \in {"status", "STATUS"} -> "STATUS"
      [] name = "reset" -> "RESET"
      [] name = "warn" -> "WARN"
      [] name = "trace" -> "TRACE"

\* the keys of colors_dict
ColorKeys == {"CRITICAL", "DEBUG", "INFO", "ERROR", "WARNING", "RESET", "STATUS"}

\* the integer levels the logging module defines, among the names above
LoggingLevels ==
    [CRITICAL |-> 50, ERROR |-> 40, WARNING |-> 30, WARN |-> 30,
     INFO |-> 20, DEBUG |-> 10]

\* the functions of the logging module that log a message, and the level
\* each logs at
LoggingFunctions ==
    [critical |-> "CRITICAL", error |-> "ERROR", warning |-> "WARNING",
     warn |-> "WARNING", info |-> "INFO", debug |-> "DEBUG"]

\* the logging module as imported: the root logger has level WARNING and no
\* handler
FreshLogging == [level |-> 30, handlers |-> <<>>]

\* the Logger objects, each known by its caller_name
LoggerInstances == {None, "'app'"}

\* one line of the stream: the colour that opens it (a key of colors_dict),
\* the level name in it and its text
Line(color, levelname, text) ==
    [color |-> color, levelname |-> levelname, text |-> text]

\* Logger.format(loglev): the colour of the level, the format, the reset
\* colour; KeyError when the upper-case name is no key of colors_dict
Logger_format(loglev) ==
    IF Upper(loglev) \in ColorKeys
    THEN Returned(Upper(loglev)) ELSE Raised("KeyError")

\* Logger.level(loglev): out is the outcome, stream the stream after the
\* call.  A name that is no key of colors_dict is reported on the stream and
\* raises KeyError; for a key, getattr(logging, name) returns the level or
\* raises AttributeError when logging has no such attribute.
Logger_level(st, loglev) ==
    IF Upper(loglev) \notin ColorKeys
    THEN [out |-> Raised("KeyError"),
          stream |-> Append(st, Line("ERROR", None, <<"not supported", Upper(loglev)>>))]
    ELSE IF Upper(loglev) \notin DOMAIN LoggingLevels
    THEN [out |-> Raised("AttributeError"), stream |-> st]
    ELSE [out |-> Returned(LoggingLevels[Upper(loglev)]), stream |-> st]

\* a plausible slip: the logging module is not reloaded
Logger_reset_Skipped(lg) == lg

\* Logger.reset(): logging.shutdown(); reload(logging)
Logger_reset(lg) == FreshLogging

\* logging.basicConfig(stream, level, datefmt, format): does nothing when the
\* root logger has a handler
basicConfig(lg, level, format) ==
    IF lg.handlers # <<>> THEN lg
    ELSE [level |-> level, handlers |-> <<format>>]

\* logging.<function>(msg) at levelname: a record below the level of the
\* root logger is dropped, another is written by each handler in its format
LoggingLog(lg, st, levelname, text) ==
    IF LoggingLevels[levelname] < lg.level THEN st
    ELSE st \o [i \in 1..Len(lg.handlers) |-> Line(lg.handlers[i], levelname, text)]

\* Logger.write(loglev, msg, custom_loglev) of the Logger with caller_name:
\* out is the outcome, logging and stream the module and the stream after
\* the call.  The function is looked up under loglev as it was passed:
\* logging.INFO is an integer, logging.Info does not exist.
Logger_write(lg, st, caller_name, loglev, msg, custom_loglev) ==
    LET reloaded == Logger_reset(lg)
        level == Logger_level(st, loglev)
        format_str == IF custom_loglev # None THEN Logger_format(custom_loglev)
                      ELSE Logger_format(loglev)
        configured == basicConfig(reloaded, level.out.value, format_str.value)
        text == IF caller_name # None THEN <<caller_name, msg>> ELSE <<msg>>
    IN  IF level.out.status # "ok"
        THEN [out |-> level.out, logging |-> reloaded, stream |-> level.stream]
        ELSE IF format_str.status # "ok"
        THEN [out |-> format_str, logging |-> reloaded, stream |-> st]
        ELSE IF loglev \in DOMAIN LoggingFunctions
        THEN [out |-> Returned(None), logging |-> configured,
              stream |-> LoggingLog(configured, st, LoggingFunctions[loglev], text)]
        ELSE IF loglev \in DOMAIN LoggingLevels
        THEN [out |-> Raised("TypeError"), logging |-> configured, stream |-> st]
        ELSE [out |-> Raised("AttributeError"), logging |-> configured, stream |-> st]

\* Logger.critical, debug, error, info, status, warn: the level, and the
\* custom level, each passes to write
MethodLevel(method) ==
    CASE method = "status" -> [loglev |-> "info", custom_loglev |-> "STATUS"]
      [] method = "warn" -> [loglev |-> "warning", custom_loglev |-> None]
      [] OTHER -> [loglev |-> method, custom_loglev |-> None]

\* Logger.<method>(msg)
Logger_method(lg, st, caller_name, method, msg) ==
    Logger_write(lg, st, caller_name, MethodLevel(method).loglev, msg,
                 MethodLevel(method).custom_loglev)

-----------------------------------------------------------------------------
(* The file interface, and the part of os and shutil it uses. *)

\* the paths of the model, all in one directory
Paths == {"s", "d", "t"}

\* the contents a file can have, and the names a directory can hold
Contents == {"c1", "c2"}
EntryNames == {"e"}

\* what can be at a path: nothing, a regular file, a directory with its
\* entries, a symbolic link with its target
NoNode == [kind |-> "absent", content |-> None, entries |-> {}, target |-> None]
FileNode(content) ==
    [kind |-> "file", content |-> content, entries |-> {}, target |-> None]
DirNode(entries) ==
    [kind |-> "dir", content |-> None, entries |-> entries, target |-> None]
LinkNode(target) ==
    [kind |-> "link", content |-> None, entries |-> {}, target |-> target]

Nodes ==
    {NoNode} \cup {FileNode(c) : c \in Contents}
    \cup {DirNode(e) : e \in SUBSET EntryNames}
    \cup {LinkNode(t) : t \in Paths}

\* the filesystems a call can find
Filesystems == [Paths -> Nodes]

\* nothing at any path
EmptyFilesystem == [p \in Paths |-> NoNode]

RECURSIVE FollowLinks(_, _, _)
\* the path a path leads to through symbolic links, None for a loop of links
FollowLinks(f, path, hops) ==
    IF f[path].kind # "link" THEN path
    ELSE IF hops = 0 THEN None
    ELSE FollowLinks(f, f[path].target, hops - 1)

\* the path the links lead to
RealPath(f, path) == FollowLinks(f, path, Cardinality(Paths))

\* what os.stat sees at the path
Stat(f, path) ==
    IF RealPath(f, path) = None THEN NoNode ELSE f[RealPath(f, path)]

\* os.path.isfile(path), os.path.isdir(path): symbolic links are followed
isfile(f, path) == Stat(f, path).kind = "file"
isdir(f, path) == Stat(f, path).kind = "dir"

\* the outcome of a call on the filesystem f: it returned, or it raised exc,
\* and left the filesystem g; log holds the messages passed to the logger
Done(g) == [out |-> Returned(None), fs |-> g, log |-> <<>>]
Failed(exc, g) == [out |-> Raised(exc), fs |-> g, log |-> <<>>]

\* logger.info(msg=msg) before the rest r of a call
Logged(key, r) ==
    [r EXCEPT !.log = <<LogRecord("info", "copying", key, <<>>)>> \o @]

\* os.remove(path): the file or the link at the path is removed
os_remove(f, path) ==
    IF f[path].kind = "absent" THEN Failed("FileNotFoundError", f)
    ELSE IF f[path].kind = "dir" THEN Failed("IsADirectoryError", f)
    ELSE Done([f EXCEPT ![path] = NoNode])

\* shutil.rmtree(path): the directory and what it holds are removed; a
\* symbolic link is refused with OSError
rmtree(f, path) ==
    IF f[path].kind = "link" THEN Failed("OSError", f)
    ELSE IF f[path].kind = "absent" THEN Failed("FileNotFoundError", f)
    ELSE IF f[path].kind = "file" THEN Failed("NotADirectoryError", f)
    ELSE Done([f EXCEPT ![path] = NoNode])

\* shutil.copy(src, dst): into the directory dst under the name of src, or
\* to the file the path dst leads to; the content is that of src
shutil_copy(f, src, dst) ==
    IF Stat(f, src).kind = "absent" THEN Failed("FileNotFoundError", f)
    ELSE IF Stat(f, src).kind = "dir" THEN Failed("IsADirectoryError", f)
    ELSE IF isdir(f, dst)
    THEN Done([f EXCEPT ![RealPath(f, dst)] = DirNode(@.entries \cup {src})])
    ELSE IF RealPath(f, dst) = None THEN Failed("OSError", f)
    ELSE IF RealPath(f, dst) = RealPath(f, src) THEN Failed("SameFileError", f)
    ELSE Done([f EXCEPT ![RealPath(f, dst)] = FileNode(Stat(f, src).content)])

\* os.symlink(src, dst): a link at dst with the target src, unless there is
\* anything at dst
os_symlink(f, src, dst) ==
    IF f[dst].kind # "absent" THEN Failed("FileExistsError", f)
    ELSE Done([f EXCEPT ![dst] = LinkNode(src)])

\* os.makedirs(path): an empty directory at the path, unless there is
\* anything at the path
os_makedirs(f, path) ==
    IF f[path].kind # "absent" THEN Failed("FileExistsError", f)
    ELSE Done([f EXCEPT ![path] = DirNode({})])

\* rmdir(path): the tree is removed if the path is a directory
rmdir(f, path) ==
    IF isdir(f, path) THEN rmtree(f, path) ELSE Done(f)

\* a plausible slip: a directory at the destination is not removed
copyfile_DirectoryKept(f, srcfile, dstfile) ==
    LET removed == IF isfile(f, dstfile) THEN os_remove(f, dstfile) ELSE Done(f)
    IN  IF removed.out.status # "ok" THEN removed
        ELSE Logged(dstfile, shutil_copy(removed.fs, srcfile, dstfile))

\* copyfile(srcfile, dstfile): a file at the destination is removed, then a
\* directory at the destination; the copy is reported and the source copied
copyfile(f, srcfile, dstfile) ==
    LET removed == IF isfile(f, dstfile) THEN os_remove(f, dstfile) ELSE Done(f)
        cleared == IF removed.out.status # "ok" THEN removed
                   ELSE rmdir(removed.fs, dstfile)
    IN  IF cleared.out.status # "ok" THEN cleared
        ELSE Logged(dstfile, shutil_copy(cleared.fs, srcfile, dstfile))

\* symlink(srcfile, dstfile): a file at the destination is removed; an
\* OSError of os.symlink is passed over
symlink(f, srcfile, dstfile) ==
    LET removed == IF isfile(f, dstfile) THEN os_remove(f, dstfile) ELSE Done(f)
    IN  IF removed.out.status # "ok" THEN removed
        ELSE Done(os_symlink(removed.fs, srcfile, dstfile).fs)

\* makedirs(path, force): a directory at the path is removed under force; an
\* OSError of os.makedirs is passed over
makedirs(f, path, force) ==
    LET cleared == IF isdir(f, path) /\ force THEN rmdir(f, path) ELSE Done(f)
    IN  IF cleared.out.status # "ok" THEN cleared
        ELSE Done(os_makedirs(cleared.fs, path).fs)

\* os.path.exists(path): there is something at the path the links lead to
os_path_exists(f, path) == Stat(f, path).kind # "absent"

\* the Python boolean of a truth value
PyBool(b) == IF b THEN "True" ELSE "False"

\* fileexist(path): whether the path exists
fileexist(f, path) ==
    [out |-> Returned(PyBool(os_path_exists(f, path))), fs |-> f, log |-> <<>>]

\* the contents of the files that are concatenated: sequences of bytes, all
\* shorter than the buffer of a file object
Bytes == {"a", "b"}
ByteStrings == {<<>>} \cup {<<b>> : b \in Bytes}

\* the filesystems concatenate can find
ByteNodes ==
    {NoNode, DirNode({})} \cup {FileNode(c) : c \in ByteStrings}
    \cup {LinkNode(t) : t \in Paths}
ByteFilesystems == [Paths -> ByteNodes]

\* open(path, "wb"): the file the path leads to is created or truncated
open_wb(f, path) ==
    IF RealPath(f, path) = None THEN Failed("OSError", f)
    ELSE IF isdir(f, path) THEN Failed("IsADirectoryError", f)
    ELSE Done([f EXCEPT ![RealPath(f, path)] = FileNode(<<>>)])

\* open(path, "rb") and read(): the bytes of the file the path leads to
open_rb_read(f, path) ==
    IF RealPath(f, path) = None THEN Raised("OSError")
    ELSE IF Stat(f, path).kind = "absent" THEN Raised("FileNotFoundError")
    ELSE IF Stat(f, path).kind = "dir" THEN Raised("IsADirectoryError")
    ELSE Returned(Stat(f, path).content)

\* leaving the with block of fout: what was written is flushed to the file
fout_close(f, fout, written) == [f EXCEPT ![fout] = FileNode(written)]

\* fout.write(data), and fout.write(b"\n") under sepfiles
fout_write(written, data, sepfiles) ==
    written \o data \o (IF sepfiles THEN <<"\n">> ELSE <<>>)

RECURSIVE concatenate_loop(_, _, _, _, _)
\* the loop over filelist: f is the filesystem with the output truncated,
\* fout the path of the output, written the bytes written to it so far
concatenate_loop(f, fout, filelist, written, sepfiles) ==
    IF filelist = <<>> THEN Done(fout_close(f, fout, written))
    ELSE IF open_rb_read(f, Head(filelist)).status # "ok"
    THEN Failed(open_rb_read(f, Head(filelist)).status,
                fout_close(f, fout, written))
    ELSE concatenate_loop(f, fout, Tail(filelist),
             fout_write(written, open_rb_read(f, Head(filelist)).value,
                        sepfiles),
             sepfiles)

\* concatenate(filelist, concatfile, sepfiles)
concatenate(f, filelist, concatfile, sepfiles) ==
    IF open_wb(f, concatfile).out.status # "ok" THEN open_wb(f, concatfile)
    ELSE concatenate_loop(open_wb(f, concatfile).fs, RealPath(f, concatfile),
                          filelist, <<>>, sepfiles)

-----------------------------------------------------------------------------
(* The URL interface, and the part of requests and urllib it uses. *)

\* the URLs of the model: one without a scheme, one with
Urls == {"h/f", "http://h/f"}

\* the scheme of a URL, None where it has none
UrlScheme(url) == IF url = "http://h/f" THEN "http" ELSE None

\* the URLs a request can be sent to
WebUrls == {url \in Urls : UrlScheme(url) # None}

\* the bodies of the responses: bytes that are UTF-8, bytes that are not
Bodies == {"b'x y'", "b'<ff>'"}

\* what answers at a URL: nothing, or a server with the status, the names of
\* the headers and the body of its response
Unreachable ==
    [kind |-> "unreachable", status |-> 0, headers |-> {}, body |-> None]
Response(status, headers, body) ==
    [kind |-> "response", status |-> status, headers |-> headers,
     body |-> body]

Answers ==
    {Unreachable}
    \cup {Response(status, headers, body) :
             status \in {200, 404},
             headers \in SUBSET {"Content-Length"},
             body \in Bodies}

\* the webs a call can find
Webs == [WebUrls -> Answers]

\* no server answers
NoWeb == [url \in WebUrls |-> Unreachable]

\* requests.get(url, stream=True, timeout=timeout): the response, whatever
\* its status
requests_get(w, url) ==
    IF UrlScheme(url) = None THEN Raised("MissingSchema")
    ELSE IF w[url].kind = "unreachable" THEN Raised("ConnectionError")
    ELSE Returned(w[url])

\* urllib.request.Request(url)
urllib_Request(url) ==
    IF UrlScheme(url) = None THEN Raised("ValueError") ELSE Returned(url)

\* urllib.request.urlopen(request) and response.read(): the body of a
\* response that is no error
urlopen_read(w, url) ==
    IF w[url].kind = "unreachable" THEN Raised("URLError")
    ELSE IF w[url].status # 200 THEN Raised("HTTPError")
    ELSE Returned(w[url].body)

\* bytes.decode("utf-8")
decode(body) ==
    IF body = "b'x y'" THEN Returned("'x y'")
    ELSE Raised("UnicodeDecodeError")

\* str(contents): the text of the literal for bytes, the string for a string
str(contents) ==
    IF contents \in Bodies THEN "\"" \o contents \o "\"" ELSE contents

\* the separators passed to read_webfile: none, a space, the empty string
Separators == {None, "' '", "''"}

\* str.split(sep)
str_split(text, sep) ==
    IF sep = "''" THEN Raised("ValueError")
    ELSE IF text = "\"b'x y'\"" THEN Returned("[\"b'x\", \"y'\"]")
    ELSE Returned("[" \o text \o "]")

\* URLInterfaceError(msg=msg), raised from the exception cause
URLInterfaceError(cause) ==
    [status |-> "URLInterfaceError", cause |-> cause, value |-> None]

\* the outcome of a call of the URL interface and the messages it passed to
\* the logger
Outcome(out, log) == [out |-> out, log |-> log]

\* a plausible slip: one flag decides both failures
get_contents_OneFlag(w, url, fail_nonread, fail_schema, timeout) ==
    IF requests_get(w, url).status = "MissingSchema"
    THEN IF fail_nonread
         THEN Outcome(URLInterfaceError("MissingSchema"), <<>>)
         ELSE Outcome(Returned(None),
                      <<LogRecord("warn", "no schema", url, <<>>)>>)
    ELSE IF requests_get(w, url).status # "ok"
    THEN Outcome(requests_get(w, url), <<>>)
    ELSE IF "Content-Length" \in requests_get(w, url).value.headers
    THEN IF urlopen_read(w, url).status # "ok"
         THEN Outcome(urlopen_read(w, url),
                      <<LogRecord("info", "collecting", url, <<>>)>>)
         ELSE Outcome(decode(urlopen_read(w, url).value),
                      <<LogRecord("info", "collecting", url, <<>>)>>)
    ELSE IF fail_nonread THEN Outcome(URLInterfaceError(""), <<>>)
    ELSE Outcome(Returned(None),
                 <<LogRecord("warn", "non-readable", url, <<>>)>>)

\* get_contents(url, fail_nonread, fail_schema, timeout): MissingSchema is
\* the one exception that is caught
get_contents(w, url, fail_nonread, fail_schema, timeout) ==
    IF requests_get(w, url).status = "MissingSchema"
    THEN IF fail_schema
         THEN Outcome(URLInterfaceError("MissingSchema"), <<>>)
         ELSE Outcome(Returned(None),
                      <<LogRecord("warn", "no schema", url, <<>>)>>)
    ELSE IF requests_get(w, url).status # "ok"
    THEN Outcome(requests_get(w, url), <<>>)
    ELSE IF "Content-Length" \in requests_get(w, url).value.headers
    THEN IF urlopen_read(w, url).status # "ok"
         THEN Outcome(urlopen_read(w, url),
                      <<LogRecord("info", "collecting", url, <<>>)>>)
         ELSE Outcome(decode(urlopen_read(w, url).value),
                      <<LogRecord("info", "collecting", url, <<>>)>>)
    ELSE IF fail_nonread THEN Outcome(URLInterfaceError(""), <<>>)
    ELSE Outcome(Returned(None),
                 <<LogRecord("warn", "non-readable", url, <<>>)>>)

\* the statements after urlopen in the inner try block of read_webfile
read_webfile_contents(contents, split, return_string) ==
    IF split = None
    THEN Returned(IF return_string THEN str(contents) ELSE contents)
    ELSE str_split(str(contents), split)

\* the inner try block of read_webfile and its handler of HTTPError; the
\* handler raises from errmsg, a local name that is not bound there
read_webfile_inner(w, url, ignore_missing, split, return_string) ==
    IF urlopen_read(w, url).status = "HTTPError"
    THEN IF ignore_missing
         THEN Outcome(Returned("[]"),
                      <<LogRecord("warn", "missing", url, <<>>)>>)
         ELSE Outcome(Raised("UnboundLocalError"), <<>>)
    ELSE IF urlopen_read(w, url).status # "ok"
    THEN Outcome(urlopen_read(w, url), <<>>)
    ELSE Outcome(read_webfile_contents(urlopen_read(w, url).value, split,
                                       return_string), <<>>)

\* a plausible slip: the outer handler is missing
read_webfile_Unwrapped(w, url, ignore_missing, split, return_string) ==
    IF urllib_Request(url).status # "ok"
    THEN Outcome(URLInterfaceError(urllib_Request(url).status), <<>>)
    ELSE read_webfile_inner(w, url, ignore_missing, split, return_string)

\* read_webfile(url, ignore_missing, split, return_string): an exception of
\* the request, and one of the inner block or of its handler, is raised
\* again as URLInterfaceError
read_webfile(w, url, ignore_missing, split, return_string) ==
    IF urllib_Request(url).status # "ok"
    THEN Outcome(URLInterfaceError(urllib_Request(url).status), <<>>)
    ELSE IF read_webfile_inner(w, url, ignore_missing, split,
                               return_string).out.status # "ok"
    THEN Outcome(URLInterfaceError(
                     read_webfile_inner(w, url, ignore_missing, split,
                                        return_string).out.status), <<>>)
    ELSE read_webfile_inner(w, url, ignore_missing, split, return_string)

-----------------------------------------------------------------------------
(* The caller: the inputs it passes and the operations it runs. *)

\* the options mappings a caller passes: at most MaxOptKeys keys
OptionsInputs == DictsUpTo(OptionKeys, OptionValues, MaxOptKeys)

\* write_table with logger_method; logger_method keeps its default "info"
\* when no table is written
TableArgs ==
    {<<FALSE, "info">>} \cup {<<TRUE, m>> : m \in LoggerMethodNames}

\* the keys of the lists passed to validate_keys
KeyNames == {"a", "b", "c"}

\* the lists of at most MaxKeys keys
KeyLists == UNION {[1..n -> KeyNames] : n \in 0..MaxKeys}

Init ==
    /\ fs = EmptyFilesystem
    /\ fs_entry = EmptyFilesystem
    /\ logging = FreshLogging
    /\ stream = <<>>
    /\ emitted = <<>>
    /\ cls_schema = EmptyDict
    /\ cls_opts = EmptyDict
    /\ web = NoWeb
    /\ op = "init"
    /\ args = EmptyDict
    /\ ret = Returned(None)

\* build_schema has just returned the schema: the options of a caller are
\* validated against it once
HasSchema == op = "build_schema" /\ ret.status = "ok"

\* cls_schema = build_schema(schema_def_dict), once, before any validation
BuildSchema ==
    /\ op = "init"
    /\ \E schema_def_dict \in SchemaDefs :
          LET r == build_schema(schema_def_dict) IN
          /\ cls_schema' = IF r.status = "ok" THEN r.value ELSE cls_schema
          /\ args' = [schema_def_dict |-> schema_def_dict]
          /\ ret' = IF r.status = "ok" THEN Returned(r.value) ELSE Raised(r.status)
    /\ op' = "build_schema"
    /\ emitted' = <<>>
    /\ UNCHANGED cls_opts
    /\ UNCHANGED <<loggervars, filevars, web>>

\* the call validate_schema(cls_schema, opts, ...) and its effects; r is the
\* outcome of the one call
CallValidateSchema(opts, ignore_extra_keys, table, width, again) ==
    \E r \in {validate_schema(cls_schema, opts, ignore_extra_keys,
                               table[1], table[2], width)} :
    /\ cls_opts' = r.opts
    /\ ret' = r.out
    /\ emitted' = r.log
    /\ args' = [cls_opts |-> opts, ignore_extra_keys |-> ignore_extra_keys,
                write_table |-> table[1], logger_method |-> table[2],
                width |-> width, again |-> again]
    /\ op' = "validate_schema"
    /\ UNCHANGED <<loggervars, filevars, web>>
    /\ UNCHANGED cls_schema

\* validate_schema on an options mapping the caller supplies
ValidateSchema ==
    /\ HasSchema
    /\ \E opts \in OptionsInputs, ignore_extra_keys \in BOOLEAN, table \in TableArgs :
          CallValidateSchema(opts, ignore_extra_keys, table, WidthDefault, FALSE)

\* validate_schema on the mapping the previous validate_schema returned,
\* with the same keyword arguments
Revalidate ==
    /\ op = "validate_schema"
    /\ ret.status = "ok"
    /\ CallValidateSchema(ret.value, args.ignore_extra_keys,
                          <<args.write_table, args.logger_method>>,
                          args.width, TRUE)

\* validate_opts on an options mapping the caller supplies
ValidateOpts ==
    /\ HasSchema
    /\ \E opts \in OptionsInputs, ignore_extra_keys \in BOOLEAN :
          \E r \in {validate_opts(cls_schema, opts, ignore_extra_keys)} :
          /\ cls_opts' = r.opts
          /\ ret' = r.out
          /\ args' = [cls_opts |-> opts, ignore_extra_keys |-> ignore_extra_keys]
    /\ op' = "validate_opts"
    /\ emitted' = <<>>
    /\ UNCHANGED cls_schema
    /\ UNCHANGED <<loggervars, filevars, web>>

\* validate_keys reads no state of the module: it is run once, on lists
\* drawn before any schema is built
ValidateKeys ==
    /\ op = "init"
    /\ \E varkeys \in KeyLists, mandkeys \in KeyLists :
          /\ args' = [varkeys |-> varkeys, mandkeys |-> mandkeys]
          /\ ret' = Returned(validate_keys(varkeys, mandkeys))
    /\ op' = "validate_keys"
    /\ UNCHANGED <<schemavars, emitted, loggervars, filevars, web>>

\* the keys and the values of the data passed to check_opts
CheckKeys == {"x", "y"}
CheckValues == {"'a'", "'b'", "7"}

\* the lists of accepted values passed to check_opts
ValidOptsLists == UNION {[1..n -> CheckValues] : n \in 0..MaxValidOpts}

\* the data dictionaries passed to check_opts
CheckData == DictsUpTo(CheckKeys, CheckValues, MaxOptKeys)

\* check_opts reads no state of the module: it is run once, on inputs drawn
\* before any schema is built
CheckOpts ==
    /\ op = "init"
    /\ \E key \in CheckKeys, valid_opts \in ValidOptsLists,
          data \in CheckData, check_and \in BOOLEAN :
          /\ args' = [key |-> key, valid_opts |-> valid_opts,
                      data |-> data, check_and |-> check_and]
          /\ ret' = check_opts(key, valid_opts, data, check_and)
    /\ op' = "check_opts"
    /\ UNCHANGED <<schemavars, emitted, loggervars, filevars, web>>

\* the values of the options whose table is rendered: strings and None
TableOptionValues == {"'a'", None} \cup LongStrings

\* the options whose table is rendered
TableOptions == DictsUpTo(FieldNames, TableOptionValues, MaxOptKeys)

\* the values of width: fewer characters than a long string has, and the
\* default
Widths == {3, WidthDefault}

\* the logger methods and the widths with which a table is asked for: info
\* with each width, and each other name, one of them that of a data
\* attribute of the Logger, with the default width
TableCalls ==
    {<<"info", width>> : width \in Widths}
    \cup {<<method, WidthDefault>> : method \in LoggerMethodNames \cup {"stream"}}

\* validate_schema with write_table, for a logger method and a width the
\* caller chooses
RenderTable ==
    /\ HasSchema
    /\ \E opts \in TableOptions, call \in TableCalls :
          CallValidateSchema(opts, TRUE, <<TRUE, call[1]>>, call[2], FALSE)

\* the level names passed to Logger.write, the custom levels, the messages
WriteLevels == {"debug", "info", "INFO", "Info", "status"}
CustomLevels == {None, "STATUS", "trace"}
Messages == {"m"}

\* the effects of a call of the Logger
LoggerEffects(r) ==
    /\ ret' = r.out
    /\ logging' = r.logging
    /\ stream' = r.stream
    /\ UNCHANGED <<schemavars, emitted, filevars, web>>

\* one of critical, debug, error, info, status, warn of one of the Loggers
LoggerMethod ==
    /\ Len(stream) < MaxLines
    /\ \E self \in LoggerInstances, method \in LoggerMessageMethods, msg \in Messages :
          /\ args' = [self |-> self, method |-> method, msg |-> msg]
          /\ LoggerEffects(Logger_method(logging, stream, self, method, msg))
    /\ op' = "Logger.method"

\* write of one of the Loggers, called with a level name
LoggerWrite ==
    /\ Len(stream) < MaxLines
    /\ \E self \in LoggerInstances, loglev \in WriteLevels,
          custom_loglev \in CustomLevels, msg \in Messages :
          /\ args' = [self |-> self, loglev |-> loglev,
                      custom_loglev |-> custom_loglev, msg |-> msg]
          /\ LoggerEffects(Logger_write(logging, stream, self, loglev, msg, custom_loglev))
    /\ op' = "Logger.write"

\* level of one of the Loggers
LoggerLevel ==
    /\ Len(stream) < MaxLines
    /\ \E self \in LoggerInstances, loglev \in LevelNames :
          LET r == Logger_level(stream, loglev) IN
          /\ args' = [self |-> self, loglev |-> loglev]
          /\ ret' = r.out
          /\ stream' = r.stream
          /\ UNCHANGED logging
          /\ UNCHANGED <<schemavars, emitted, filevars, web>>
    /\ op' = "Logger.level"

\* the effects of a call of the file interface
FileEffects(r) ==
    /\ ret' = r.out
    /\ fs' = r.fs
    /\ fs_entry' = fs
    /\ emitted' = r.log
    /\ UNCHANGED <<schemavars, loggervars, web>>

\* copyfile(srcfile, dstfile)
CopyFile ==
    /\ \E srcfile \in Paths, dstfile \in Paths :
          /\ args' = [srcfile |-> srcfile, dstfile |-> dstfile]
          /\ FileEffects(copyfile(fs, srcfile, dstfile))
    /\ op' = "copyfile"

\* symlink(srcfile, dstfile)
Symlink ==
    /\ \E srcfile \in Paths, dstfile \in Paths :
          /\ args' = [srcfile |-> srcfile, dstfile |-> dstfile]
          /\ FileEffects(symlink(fs, srcfile, dstfile))
    /\ op' = "symlink"

\* makedirs(path, force)
MakeDirs ==
    /\ \E path \in Paths, force \in BOOLEAN :
          /\ args' = [path |-> path, force |-> force]
          /\ FileEffects(makedirs(fs, path, force))
    /\ op' = "makedirs"

\* fileexist(path)
FileExist ==
    /\ \E path \in Paths :
          /\ args' = [path |-> path]
          /\ FileEffects(fileexist(fs, path))
    /\ op' = "fileexist"

\* the lists of files passed to concatenate
FileLists == UNION {[1..n -> Paths] : n \in 0..MaxFiles}

\* concatenate(filelist, concatfile, sepfiles)
Concatenate ==
    /\ op = "init"
    /\ \E filelist \in FileLists, concatfile \in Paths, sepfiles \in BOOLEAN :
          /\ args' = [filelist |-> filelist, concatfile |-> concatfile,
                      sepfiles |-> sepfiles]
          /\ \E r \in {concatenate(fs, filelist, concatfile, sepfiles)} :
                FileEffects(r)
    /\ op' = "concatenate"

Next ==
    \/ BuildSchema
    \/ ValidateSchema
    \/ Revalidate
    \/ ValidateOpts
    \/ ValidateKeys

Spec == Init /\ [][Next]_vars

\* the calls of check_opts
SpecCheckOpts == Init /\ [][CheckOpts]_vars

NextLogger ==
    \/ LoggerMethod
    \/ LoggerWrite
    \/ LoggerLevel

\* the calls of the Loggers of a process
SpecLogger == Init /\ [][NextLogger]_vars

\* a process that finds any filesystem
InitFiles ==
    /\ fs \in Filesystems
    /\ fs_entry = fs
    /\ logging = FreshLogging
    /\ stream = <<>>
    /\ emitted = <<>>
    /\ cls_schema = EmptyDict
    /\ cls_opts = EmptyDict
    /\ web = NoWeb
    /\ op = "init"
    /\ args = EmptyDict
    /\ ret = Returned(None)

NextFiles ==
    \/ CopyFile
    \/ Symlink
    \/ MakeDirs
    \/ FileExist

\* the calls of the file interface
SpecFiles == InitFiles /\ [][NextFiles]_vars

\* a process that finds any filesystem of files of bytes
InitConcatenate ==
    /\ fs \in ByteFilesystems
    /\ fs_entry = fs
    /\ logging = FreshLogging
    /\ stream = <<>>
    /\ emitted = <<>>
    /\ cls_schema = EmptyDict
    /\ cls_opts = EmptyDict
    /\ web = NoWeb
    /\ op = "init"
    /\ args = EmptyDict
    /\ ret = Returned(None)

\* the calls of concatenate
SpecConcatenate == InitConcatenate /\ [][Concatenate]_vars

\* the effects of a call of the URL interface
UrlEffects(r) ==
    /\ ret' = r.out
    /\ emitted' = r.log
    /\ UNCHANGED <<schemavars, loggervars, filevars, web>>

\* the timeouts passed to get_contents: the default
Timeouts == {10}

\* get_contents(url, fail_nonread, fail_schema, timeout)
GetContents ==
    /\ \E url \in Urls, fail_nonread \in BOOLEAN, fail_schema \in BOOLEAN,
          timeout \in Timeouts :
          /\ args' = [url |-> url, fail_nonread |-> fail_nonread,
                      fail_schema |-> fail_schema, timeout |-> timeout]
          /\ UrlEffects(get_contents(web, url, fail_nonread, fail_schema,
                                     timeout))
    /\ op' = "get_contents"

\* read_webfile(url, ignore_missing, split, return_string)
ReadWebfile ==
    /\ \E url \in Urls, ignore_missing \in BOOLEAN, split \in Separators,
          return_string \in BOOLEAN :
          /\ args' = [url |-> url, ignore_missing |-> ignore_missing,
                      split |-> split, return_string |-> return_string]
          /\ UrlEffects(read_webfile(web, url, ignore_missing, split,
                                     return_string))
    /\ op' = "read_webfile"

\* a process that finds any web
InitUrl ==
    /\ web \in Webs
    /\ fs = EmptyFilesystem
    /\ fs_entry = EmptyFilesystem
    /\ logging = FreshLogging
    /\ stream = <<>>
    /\ emitted = <<>>
    /\ cls_schema = EmptyDict
    /\ cls_opts = EmptyDict
    /\ op = "init"
    /\ args = EmptyDict
    /\ ret = Returned(None)

NextUrl ==
    \/ GetContents
    \/ ReadWebfile

\* the calls of the URL interface
SpecUrl == InitUrl /\ [][NextUrl]_vars

NextTable ==
    \/ BuildSchema
    \/ RenderTable

\* the tables of validate_schema
SpecTable == Init /\ [][NextTable]_vars

-----------------------------------------------------------------------------
(* The vocabulary of the properties. *)

\* value is a value of the type a schema entry declares (or null, for an
\* entry whose type was widened to "type or null")
OfDeclaredType(entry, value) ==
    \/ entry.svalue.kind \in {"type", "Or"} /\ TypeOf(value) = entry.svalue.of
    \/ entry.svalue.kind = "Or" /\ value = None

\* the options supply every required field of the schema, and supply each
\* field they do supply with a value of its declared type
ValidInput(schema_dict, opts) ==
    \A k \in DOMAIN schema_dict :
        /\ ~schema_dict[k].optional => k \in DOMAIN opts
        /\ k \in DOMAIN opts => OfDeclaredType(schema_dict[k], opts[k])

\* the options set to null a string field that has a default: the row of
\* such a field cannot be built
NullForDefaultedString ==
    \E k \in DOMAIN cls_schema \cap DOMAIN args.cls_opts :
        /\ cls_schema[k].optional
        /\ cls_schema[k].svalue.kind = "Or"
        /\ cls_schema[k].svalue.of = "str"
        /\ cls_schema[k].default # None
        /\ args.cls_opts[k] = None

\* the table, if one is asked for, can be built and is written by a method
\* of the Logger
TableWritable ==
    \/ ~args.write_table
    \/ /\ Lower(args.logger_method) \in LoggerMessageMethods
       /\ ~NullForDefaultedString

\* the call does not reject undeclared keys, or there are none
ExtraKeysPass ==
    args.ignore_extra_keys \/ DOMAIN args.cls_opts \subseteq DOMAIN cls_schema

\* C1: for every schema S produced by build_schema and every options mapping
\* I that supplies each required field with a value of its declared type and
\* optional fields only with values of their accepted type, validate_schema
\* returns a mapping with a key for every field of S: I's value where I
\* supplied the field, the field's default otherwise.
C1_ResolvedOptions ==
    (/\ op = "validate_schema"
     /\ ValidInput(cls_schema, args.cls_opts)
     /\ ExtraKeysPass
     /\ TableWritable)
    => /\ ret.status = "ok"
       /\ DOMAIN cls_schema \subseteq DOMAIN ret.value
       /\ \A k \in DOMAIN cls_schema :
             ret.value[k] = IF k \in DOMAIN args.cls_opts
                            THEN args.cls_opts[k]
                            ELSE cls_schema[k].default

\* C2: when a required field of the schema is absent from the options,
\* validate_schema fails with SchemaInterfaceError and returns no mapping,
\* whatever ignore_extra_keys and write_table are.
C2_MissingRequiredFails ==
    (/\ op = "validate_schema"
     /\ ~(RequiredKeys(cls_schema) \subseteq DOMAIN args.cls_opts))
    => /\ ret.status = "SchemaInterfaceError"
       /\ ret.value = None

\* C2 witness: a call that lacks nothing but a required key, with the table
\* switched off and extra keys rejected
C2_Witness ==
    /\ op = "validate_schema"
    /\ ~(RequiredKeys(cls_schema) \subseteq DOMAIN args.cls_opts)
    /\ ret.cause = "SchemaMissingKeyError"
    /\ ~args.write_table
    /\ ~args.ignore_extra_keys

\* a field spec that is not required and has no default, or a null one, and
\* whose type name is one of the known types
NullableSpec(spec) ==
    /\ spec.required \in {Absent, "False"}
    /\ spec.default \in {Absent, None}
    /\ spec.type \in KnownTypes

\* a schema entry for an optional field without a default
NullableEntry(entry) == entry.optional /\ entry.default = None

\* every field the options omit is an optional field without a default
OnlyNullableOmitted(schema_dict, opts) ==
    \A k \in DOMAIN schema_dict \ DOMAIN opts : NullableEntry(schema_dict[k])

MismatchedSpec(spec) ==
    /\ spec.required \in {Absent, "False"}
    /\ spec.type \in KnownTypes
    /\ spec.default \notin {Absent, None}
    /\ ~PyIsInstance(spec.default, spec.type)

\* a dictionary without one of its keys
Without(dict, key) == [k \in DOMAIN dict \ {key} |-> dict[k]]

\* the outcome of build_schema as the caller sees it
BuildOutcome(schema_def_dict) ==
    LET r == build_schema(schema_def_dict) IN
    IF r.status = "ok" THEN Returned(r.value) ELSE Raised(r.status)

\* C4: a non-required field spec whose default is non-null and no instance
\* of the declared type is left out of the schema, without an error of its
\* own: build_schema does what it does on the definition without that spec.
C4_MismatchDropped ==
    op = "build_schema" =>
       \A k \in DOMAIN args.schema_def_dict :
          MismatchedSpec(args.schema_def_dict[k]) =>
             /\ ret = BuildOutcome(Without(args.schema_def_dict, k))
             /\ ret.status = "ok" => k \notin DOMAIN ret.value

\* C4 witness: build_schema returned a schema that holds the other field of
\* a definition and not the field with the mismatched default
C4_Witness ==
    /\ op = "build_schema"
    /\ ret.status = "ok"
    /\ \E k \in DOMAIN args.schema_def_dict :
          /\ MismatchedSpec(args.schema_def_dict[k])
          /\ k \notin DOMAIN ret.value
          /\ DOMAIN ret.value # {}

\* the field spec names no type
TypeMissing(spec) == spec.type = Absent

\* the field spec names a type that resolves to nothing, and is not required
TypeUnknownOptional(spec) ==
    spec.type \notin KnownTypes \cup {Absent} /\ spec.required # "True"

C7_DefaultsInPlace ==
    (op = "validate_schema" /\ ret.status = "ok") =>
       /\ DOMAIN cls_opts = DOMAIN args.cls_opts \cup OptionalKeys(cls_schema)
       /\ \A k \in OptionalKeys(cls_schema) \ DOMAIN args.cls_opts :
             cls_opts[k] = cls_schema[k].default
       /\ \A k \in DOMAIN args.cls_opts : cls_opts[k] = args.cls_opts[k]

\* C7 witness: a successful call whose options lacked an optional field
\* with a non-null default and held an optional field whose value is not
\* its default
C7_Witness ==
    /\ op = "validate_schema"
    /\ ret.status = "ok"
    /\ \E k \in OptionalKeys(cls_schema) \ DOMAIN args.cls_opts :
          cls_schema[k].default # None /\ cls_opts[k] = cls_schema[k].default
    /\ \E k \in OptionalKeys(cls_schema) \cap DOMAIN args.cls_opts :
          args.cls_opts[k] # cls_schema[k].default

\* C8: validate_opts leaves the caller's mapping as it was on entry,
\* whether it returns or raises: no default is set.
C8_ValidateOptsFrame ==
    op = "validate_opts" => cls_opts = args.cls_opts

\* C8 witness: validate_opts returned on options that lack an optional
\* field of the schema
C8_Witness ==
    /\ op = "validate_opts"
    /\ ret.status = "ok"
    /\ ~(OptionalKeys(cls_schema) \subseteq DOMAIN args.cls_opts)
    /\ cls_opts = args.cls_opts

\* the mapping a call validates: the options as passed for validate_opts,
\* the options with the defaults of the optional fields they lack for
\* validate_schema
Validated ==
    IF op = "validate_schema"
    THEN [k \in DOMAIN args.cls_opts \cup OptionalKeys(cls_schema) |->
             IF k \in DOMAIN args.cls_opts THEN args.cls_opts[k]
             ELSE cls_schema[k].default]
    ELSE args.cls_opts

\* the options hold a key the schema does not declare
HasExtraKeys == ~(DOMAIN args.cls_opts \subseteq DOMAIN cls_schema)

\* C9: for validate_opts and validate_schema alike, options that conform to
\* the schema but for keys the schema does not declare are accepted when
\* ignore_extra_keys is true and rejected with SchemaInterfaceError when it
\* is false.
C9_ExtraKeys ==
    (/\ op \in {"validate_opts", "validate_schema"}
     /\ HasExtraKeys
     /\ ValidInput(cls_schema, Validated)
     /\ op = "validate_schema" => TableWritable)
    => IF args.ignore_extra_keys
       THEN ret.status = "ok"
       ELSE ret.status = "SchemaInterfaceError"

\* C9 witness: validate_schema accepted options with an undeclared key
\* (extra keys ignored), for a schema with a required field
C9_Witness ==
    /\ op = "validate_schema"
    /\ HasExtraKeys
    /\ args.ignore_extra_keys
    /\ RequiredKeys(cls_schema) # {}
    /\ ret.status = "ok"

\* C10: validate_keys returns true iff every element of mandkeys is an
\* element of varkeys (true for empty mandkeys), false otherwise, and
\* never raises.
C10_ValidateKeys ==
    op = "validate_keys" =>
       /\ ret.status = "ok"
       /\ ret.value = (Elems(args.mandkeys) \subseteq Elems(args.varkeys))

\* C10 witness: validate_keys returned false for lists that share a key
C10_Witness ==
    /\ op = "validate_keys"
    /\ ret.value = FALSE
    /\ Elems(args.mandkeys) \cap Elems(args.varkeys) # {}


C12_OnlySchemaError ==
    (op = "check_opts" /\ ~args.check_and) =>
       ret.status \in {"ok", "SchemaInterfaceError"}

\* the options, with the defaults set, pass the validation of the schema
OptionsValidate ==
    SchemaValidate(def_schema(cls_schema, args.ignore_extra_keys), cls_opts) = "ok"

\* C13: validate_schema with write_table true and a logger_method that names
\* no method of the Logger fails with SchemaInterfaceError although the
\* options validate, and no table is passed to any method of the logger.
C13_UnsupportedLoggerMethod ==
    (/\ op = "validate_schema"
     /\ args.write_table
     /\ Lower(args.logger_method) \notin LoggerMethods
     /\ OptionsValidate)
    => /\ ret.status = "SchemaInterfaceError"
       /\ \A i \in 1..Len(emitted) : emitted[i].kind # "table"

\* C13 witness: a call with a logger method the Logger does not have, on
\* options that validate after a default was set and reported; the table
\* was built and the method lookup raised
C13_Witness ==
    /\ op = "validate_schema"
    /\ args.write_table
    /\ args.logger_method = "trace"
    /\ OptionsValidate
    /\ ret.status = "SchemaInterfaceError"
    /\ ret.cause = "SchemaInterfaceError"
    /\ Len(emitted) = 1
    /\ emitted[1].kind = "default"

\* the rows of the table the call passed to the logger
EmittedTable ==
    LET i == CHOOSE i \in 1..Len(emitted) : emitted[i].kind = "table"
    IN  emitted[i].table

\* the call wrote a table in which the string field k has a value of more
\* characters than width
LongEntry(k) ==
    /\ op = "validate_schema"
    /\ ret.status = "ok"
    /\ args.write_table
    /\ cls_schema[k].svalue.of = "str"
    /\ TypeOf(cls_opts[k]) = "str"
    /\ Len(Text(cls_opts[k])) > args.width

\* a row in which only the Assigned Value column is populated, with text
ContinuationRow(row, text) ==
    /\ row.variable = None
    /\ row.type = None
    /\ row.optional = None
    /\ row.default = None
    /\ Text(row.assigned) = text

\* C14: in the table written by validate_schema a string entry of more than
\* width characters takes several rows: the first has the Variable, Type,
\* Optional and Default Value columns and the first chunk of the wrapped
\* value, each following row has a further chunk in the Assigned Value
\* column and nothing in the other columns.
C14_LongStringWrapped ==
    \A k \in DOMAIN cls_schema :
       LongEntry(k) =>
          LET chunks == textwrap_wrap(Text(cls_opts[k]), args.width)
              rows == EmittedTable
          IN  \E i \in 1..Len(rows) :
                 /\ rows[i].variable = k
                 /\ rows[i].type = "str"
                 /\ Text(rows[i].assigned) = chunks[1]
                 /\ i + Len(chunks) - 1 <= Len(rows)
                 /\ \A j \in 2..Len(chunks) :
                       ContinuationRow(rows[i + j - 1], chunks[j])

\* the level at which a method of the Logger logs
OwnLevel(method) ==
    CASE method = "critical" -> "CRITICAL"
      [] method = "debug" -> "DEBUG"
      [] method = "error" -> "ERROR"
      [] method \in {"info", "status"} -> "INFO"
      [] method = "warn" -> "WARNING"

\* the colour in which the lines of a method are written
OwnColor(method) == IF method = "status" THEN "STATUS" ELSE OwnLevel(method)

\* the text of a message a Logger writes: its caller_name, if it has one,
\* and the message
OwnText(self, msg) == IF self # None THEN <<self, msg>> ELSE <<msg>>

\* C15: in every sequence of calls of critical, debug, error, info, status
\* and warn, and of write with one of their levels, on one or several
\* Loggers, each call writes one line to the stream, at the level of the call
\* and in the colour of that level (of custom_loglev, when one is given),
\* whatever was called before.
C15_EachAtOwnLevel ==
    [][/\ op' = "Logger.method" =>
             /\ ret'.status = "ok"
             /\ stream' = Append(stream, Line(OwnColor(args'.method),
                                              OwnLevel(args'.method),
                                              OwnText(args'.self, args'.msg)))
       /\ (/\ op' = "Logger.write"
           /\ args'.loglev \in {"debug", "info"}
           /\ args'.custom_loglev \in {None, "STATUS"}) =>
             /\ ret'.status = "ok"
             /\ stream' = Append(stream, Line(IF args'.custom_loglev # None
                                              THEN args'.custom_loglev
                                              ELSE Upper(args'.loglev),
                                              Upper(args'.loglev),
                                              OwnText(args'.self, args'.msg)))
      ]_vars

\* C15 witness: debug of one Logger was called after info of another; both
\* lines are on the stream, each at its level and in its colour
C15_Witness ==
    /\ op = "Logger.method"
    /\ args.method = "debug"
    /\ Len(stream) = 2
    /\ stream[1] = Line("INFO", "INFO", <<"m">>)
    /\ stream[2] = Line("DEBUG", "DEBUG", <<"'app'", "m">>)

\* C16: Logger.write takes loglev in any case: a call with "INFO" or "Info"
\* writes the line that a call with "info" writes.
C16_CaseInsensitive ==
    (/\ op = "Logger.write"
     /\ Upper(args.loglev) \in {"DEBUG", "INFO"}
     /\ args.custom_loglev \in {None, "STATUS"})
    => /\ ret.status = "ok"
       /\ Len(stream) > 0
       /\ stream[Len(stream)] =
             Line(IF args.custom_loglev # None THEN args.custom_loglev
                  ELSE Upper(args.loglev),
                  Upper(args.loglev), OwnText(args.self, args.msg))

\* C17: Logger.level raises KeyError for every name whose upper-case form is
\* no key of colors_dict, and returns the integer level for every name whose
\* upper-case form is a key.
C17_LevelOrKeyError ==
    op = "Logger.level" =>
       IF Upper(args.loglev) \in ColorKeys
       THEN ret.status = "ok" /\ ret.value \in Nat
       ELSE ret.status = "KeyError"

\* C18: after copyfile(srcfile, dstfile) has returned for a source that was
\* a file, the destination is a file with the content the source had; a file
\* or a directory that was at the destination is gone, a regular file being
\* there in its place; and the source is as it was.
C18_CopyReplaces ==
    (/\ op = "copyfile"
     /\ ret.status = "ok"
     /\ isfile(fs_entry, args.srcfile))
    => /\ isfile(fs, args.dstfile)
       /\ Stat(fs, args.dstfile).content = Stat(fs_entry, args.srcfile).content
       /\ fs_entry[args.dstfile].kind \in {"file", "dir"} =>
             fs[args.dstfile] = FileNode(Stat(fs_entry, args.srcfile).content)
       /\ fs[args.srcfile] = fs_entry[args.srcfile]
       /\ Stat(fs, args.srcfile) = Stat(fs_entry, args.srcfile)

\* C18 witness: copyfile returned where the destination was a directory that
\* held an entry; the destination is now a regular file
C18_Witness ==
    /\ op = "copyfile"
    /\ ret.status = "ok"
    /\ fs_entry[args.srcfile].kind = "file"
    /\ fs_entry[args.dstfile].kind = "dir"
    /\ fs_entry[args.dstfile].entries # {}
    /\ fs[args.dstfile].kind = "file"

\* what was at the path on entry is one of: nothing, a regular file, a
\* symbolic link to an existing file, a dangling symbolic link, a directory
ListedPriorState(path) ==
    \/ fs_entry[path].kind \in {"absent", "file", "dir"}
    \/ /\ fs_entry[path].kind = "link"
       /\ RealPath(fs_entry, path) # None
       /\ Stat(fs_entry, path).kind \in {"file", "absent"}

\* C19: after symlink(srcfile, dstfile) has returned, the destination is a
\* symbolic link to the source, whether the destination was absent, a
\* regular file, a link to an existing file, a dangling link or a directory.
C19_LinkCreated ==
    (/\ op = "symlink"
     /\ ret.status = "ok"
     /\ ListedPriorState(args.dstfile))
    => fs[args.dstfile] = LinkNode(args.srcfile)

\* C20: after makedirs(path, force) has returned, the path is a directory,
\* whatever was there; under force a directory that was there is empty, and
\* without force a directory that was there holds what it held.
C20_DirectoryExists ==
    (op = "makedirs" /\ ret.status = "ok")
    => /\ isdir(fs, args.path)
       /\ (args.force /\ isdir(fs_entry, args.path)) =>
             Stat(fs, args.path) = DirNode({})
       /\ (~args.force /\ isdir(fs_entry, args.path)) =>
             Stat(fs, args.path) = Stat(fs_entry, args.path)

\* C22: fileexist(path) returns True exactly when the path is an existing
\* regular file; it returns False for a missing path and for a directory.
C22_RegularFileOnly ==
    op = "fileexist" =>
       /\ ret.status = "ok"
       /\ ret.value = PyBool(isfile(fs_entry, args.path))

RECURSIVE Joined(_, _, _)
\* the contents the files of filelist have in f, in list order, with sep
\* between the contents of consecutive files
Joined(f, filelist, sep) ==
    IF filelist = <<>> THEN <<>>
    ELSE IF Len(filelist) = 1 THEN Stat(f, filelist[1]).content
    ELSE Stat(f, filelist[1]).content \o sep \o Joined(f, Tail(filelist), sep)

\* no file of the list is the file the output leads to
OutputApart ==
    \A i \in DOMAIN args.filelist :
       RealPath(fs_entry, args.filelist[i]) # RealPath(fs_entry, args.concatfile)

\* C21: after concatenate(filelist, concatfile, sepfiles) has returned, where
\* the output is none of the files of the list, concatfile holds exactly the
\* contents the files of filelist had, in list order, in place of what it
\* held; under sepfiles a newline stands between the contents of consecutive
\* files and nothing else is added.
C21_Concatenated ==
    (op = "concatenate" /\ ret.status = "ok" /\ OutputApart)
    => /\ isfile(fs, args.concatfile)
       /\ Stat(fs, args.concatfile).content =
             Joined(fs_entry, args.filelist,
                    IF args.sepfiles THEN <<"\n">> ELSE <<>>)

\* the URL of the last call has no scheme
MissingSchema == UrlScheme(args.url) = None

\* the URL of the last call is answered by a response without the header
\* Content-Length
NoContentLength ==
    /\ ~MissingSchema
    /\ web[args.url].kind = "response"
    /\ "Content-Length" \notin web[args.url].headers

\* the contents at the URL of the last call were read, and are text
ContentsRead(text) ==
    /\ ~MissingSchema
    /\ urlopen_read(web, args.url).status = "ok"
    /\ decode(urlopen_read(web, args.url).value) = Returned(text)

\* C23: get_contents on a URL whose response has no Content-Length raises
\* URLInterfaceError under fail_nonread and returns None without it; on a URL
\* without a scheme it raises URLInterfaceError under fail_schema and returns
\* None without it; each outcome is that for either value of the other flag;
\* and a value other than None is returned only where the contents were read.
C23_OutcomeMatrix ==
    op = "get_contents" =>
       /\ NoContentLength =>
             IF args.fail_nonread THEN ret.status = "URLInterfaceError"
             ELSE ret = Returned(None)
       /\ MissingSchema =>
             IF args.fail_schema THEN ret.status = "URLInterfaceError"
             ELSE ret = Returned(None)
       /\ (ret.status = "ok" /\ ret.value # None) => ContentsRead(ret.value)

\* C23 witness: a response without Content-Length, with fail_schema set and
\* fail_nonread not: None is returned and a warning is logged
C23_Witness ==
    /\ op = "get_contents"
    /\ NoContentLength
    /\ args.fail_schema
    /\ ~args.fail_nonread
    /\ ret = Returned(None)
    /\ emitted # <<>>

\* opening the URL of the last call raises an HTTP error
EndpointMissing ==
    /\ UrlScheme(args.url) # None
    /\ urlopen_read(web, args.url).status = "HTTPError"

\* C24: read_webfile on a URL whose opening raises an HTTP error returns the
\* empty list under ignore_missing and raises URLInterfaceError without it;
\* and read_webfile raises no exception other than URLInterfaceError.
C24_MissingEndpoint ==
    op = "read_webfile" =>
       /\ EndpointMissing =>
             IF args.ignore_missing THEN ret = Returned("[]")
             ELSE ret.status = "URLInterfaceError"
       /\ ret.status \in {"ok", "URLInterfaceError"}

\* C24 witness: the endpoint is missing and ignore_missing is not set; the
\* handler of the HTTP error fails on the unbound name errmsg, and that
\* failure is what is raised again as URLInterfaceError
C24_Witness ==
    /\ op = "read_webfile"
    /\ EndpointMissing
    /\ ~args.ignore_missing
    /\ ret = URLInterfaceError("UnboundLocalError")

\* the optional fields of the schema that the options lacked on entry
AbsentOnEntry == OptionalKeys(cls_schema) \ DOMAIN args.cls_opts

\* C25: when validate_schema has raised SchemaInterfaceError the caller's
\* mapping holds every optional field that was absent on entry, set to its
\* default, beside the entries it had; where a field was absent the mapping
\* is not the one of the entry.
C25_NoRollback ==
    (op = "validate_schema" /\ ret.status = "SchemaInterfaceError") =>
       /\ \A k \in AbsentOnEntry :
             k \in DOMAIN cls_opts /\ cls_opts[k] = cls_schema[k].default
       /\ \A k \in DOMAIN args.cls_opts :
             k \in DOMAIN cls_opts /\ cls_opts[k] = args.cls_opts[k]
       /\ AbsentOnEntry # {} => DOMAIN cls_opts # DOMAIN args.cls_opts

\* C25 witness: validate_schema raised SchemaInterfaceError on options that
\* lacked an optional field, and the mapping now holds its default
C25_Witness ==
    /\ op = "validate_schema"
    /\ ret.status = "SchemaInterfaceError"
    /\ \E k \in AbsentOnEntry :
          k \in DOMAIN cls_opts /\ cls_opts[k] = cls_schema[k].default

====
